---------------------------- MODULE Spec2Model ----------------------------
(***************************************************************************)
(* Task orchestration engine of codestat-agent: TaskScheduler              *)
(* (src/src/task/scheduler.py) over ContainerManager                       *)
(* (src/src/task/container.py) and the container runtime.                  *)
(*                                                                         *)
(* One step of the model is one run of a coroutine between two suspension  *)
(* points (await) of the asyncio event loop: nothing else can observe the  *)
(* states inside such a run.  An off-loaded runtime call                   *)
(* (asyncio.to_thread) takes effect on the runtime at the step in which    *)
(* the awaiting coroutine resumes.                                         *)
(*                                                                         *)
(* Time is a bounded integer clock; datetime.utcnow() reads it.            *)
(* A container id is the task_id of the task whose start call created the  *)
(* container (the runtime's ids are unique and opaque).                    *)
(* uuid4 draws are taken to be fresh: task ids are 1, 2, ... in call order.*)
(***************************************************************************)
EXTENDS Integers, Sequences, FiniteSets, TLC

\* ------------------------------------------------------------------ bounds

\* Number of schedule_from_push_event calls in a run.
MaxTasks == 2

\* Last value of the clock.
MaxTime == 2

\* _cleanup_old_tasks(max_tasks=1000): the registry maximum, scaled down.
max_tasks == 1

\* _cleanup_old_tasks(max_age_hours=24): the maximum age, scaled down.  The
\* body of _cleanup_old_tasks never reads it.
max_age_hours == 1

\* Repository ids of push events.
Repos == {"r1", "r2"}

\* ClocConfig.timeout values (seconds) of the configurations in use.
Timeouts == {1}

\* Optional[...] = None for the integer-valued fields.
None == -1

\* Optional[...] = None for error_message and result.
Null == "None"

\* ------------------------------------------------------------------- state

VARIABLES
    tasks,               \* self.tasks: task_id -> StatTask
    repository_configs,  \* self.repository_configs: repository_id -> timeout
    default_cloc_config, \* self.default_cloc_config.timeout
    _running,            \* self._running
    starting,            \* task ids whose _execute_task awaits start_task
    looked,              \* start_task threads past get_container: what it returned
    orphans,             \* runtime calls of cancelled passes still in their threads
    sync,                \* the persistence sync loop of the application
    db,                  \* the store: rows, the tasks table (task_id -> the
                         \* columns saved last), and pushed, the tasks on_push
                         \* has saved
    mpc,                 \* position of the _monitor_tasks coroutine
    cur,                 \* the task of the current loop iteration
    todo,                \* rest of list(self.tasks.values()) of this pass
    elapsed,             \* local `elapsed` of the pass while it awaits the stop
    stop_pc,             \* position of the stop() call
    containers,          \* runtime: container id -> [name, status]
    results,             \* results dir: task_id -> result file
    now,                 \* the clock
    issued,              \* number of schedule calls so far
    hist                 \* history of calls and passes (not program state)

vars == <<tasks, repository_configs, default_cloc_config, _running, starting,
          looked, orphans, sync, db, mpc, cur, todo, elapsed, stop_pc,
          containers, results, now, issued, hist>>

Terminal == {"success", "failed", "timeout"}

\* StatTask as constructed by schedule_from_push_event.
StatTask(repository_id, timeout, created_at) ==
    [repository_id |-> repository_id,
     status        |-> "pending",
     container_id  |-> None,
     timeout       |-> timeout,
     created_at    |-> created_at,
     started_at    |-> None,
     finished_at   |-> None,
     error_message |-> Null,
     result        |-> Null]

\* dict assignment d[k] = v.
Put(d, k, v) == [x \in DOMAIN d \cup {k} |-> IF x = k THEN v ELSE d[x]]

\* dict without the keys ks.
Drop(d, ks) == [x \in DOMAIN d \ ks |-> d[x]]

\* Ascending list of a set of integers (dict insertion order of task ids).
RECURSIVE Ascending(_)
Ascending(S) ==
    IF S = {} THEN <<>>
    ELSE LET m == CHOOSE x \in S : \A y \in S : x <= y
         IN <<m>> \o Ascending(S \ {m})

\* What the last retention pass saw and did: registry size and number of
\* terminal tasks when it began, registry size when it ended, status and
\* finished_at of the tasks it removed, finished_at of the completed tasks
\* it kept.
NoRetention ==
    [size_in |-> 0, terminal_in |-> 0, size_out |-> 0, evicted |-> {}, kept |-> {}]

\* History (not program state):
\*   raised        schedule calls that ended with an exception
\*   called_after  for each call in flight, the tasks whose call had returned
\*                 when it was made
\*   cancelled_at  where the last stop() call found the loop ("none": there
\*                 was no loop to cancel), until the next start()
\*   loops         number of live _monitor_tasks coroutines
\*   overdue       the task of the current iteration was past its timeout
\*                 when the iteration began
\*   last_error    the exception that ended the last pass, if one did
\*   retention     the last retention pass
\*   started       the container reference start_task returned to the last
\*                 schedule call that returned, None if start_task raised
HistInit ==
    [raised       |-> {},
     started      |-> None,
     called_after |-> <<>>,
     cancelled_at |-> Null,
     loops        |-> 0,
     overdue      |-> FALSE,
     last_error   |-> Null,
     retention    |-> NoRetention]

\* The sync loop asleep: no iterator over self.tasks.values() is open.
\*   pc      "sleep" or "saving" (awaiting db.save_task)
\*   used    len(self.tasks) when the iterator was made
\*   left    items the iterator has still to yield
\*   pos     the task last yielded
\*   failed  the iterator raised RuntimeError in the last iteration
SyncIdle == [pc |-> "sleep", used |-> 0, left |-> 0, pos |-> 0, failed |-> FALSE]

Init ==
    /\ tasks = <<>>
    /\ repository_configs = <<>>
    /\ default_cloc_config \in Timeouts
    /\ _running = FALSE
    /\ starting = {}
    /\ looked = <<>>
    /\ orphans = {}
    /\ sync = SyncIdle
    /\ db = [rows |-> <<>>, pushed |-> {}]
    /\ mpc = "none"
    /\ cur = None
    /\ todo = <<>>
    /\ elapsed = None
    /\ stop_pc = "idle"
    /\ containers = <<>>
    /\ results = [t \in 1..MaxTasks |-> "missing"]
    /\ now = 0
    /\ issued = 0
    /\ hist = HistInit


\* --------------------------------------------------- ContainerManager

\* ContainerManager._get_container_name: one name per repository.
_get_container_name(repository_id) == <<"codestat", repository_id>>

\* ContainerManager.get_container: the container of that name, or None.
get_container(cs, repository_id) ==
    LET named == {c \in DOMAIN cs : cs[c].name = _get_container_name(repository_id)}
    IN IF named = {} THEN None ELSE CHOOSE c \in named : TRUE

\* Runtime faults a start_task call can meet: the lookup fails with an error
\* other than NotFound, containers.create is rejected, container.start is
\* rejected.
Faults == {"none", "docker_error", "create_error", "start_error"}

\* The runtime refuses a second container of one name (409 Conflict).
NameTaken(cs, name) == \E c \in DOMAIN cs : cs[c].name = name

\* What get_container returned to a start_task thread: the id and the status
\* of the Container object it holds (attributes as of the lookup), id None
\* if there was none.
Lookup(cs, repository_id) ==
    LET c == get_container(cs, repository_id)
    IN [id |-> c, status |-> IF c = None THEN "none" ELSE cs[c].status]

\* Variant of create_or_get_container that names the container after the
\* task instead of the repository: no container is ever reused.
create_or_get_container_per_task(cs, task_id, repository_id, fault, existing) ==
    IF fault = "create_error"
    THEN [cs |-> cs, id |-> None, status |-> "none", exc |-> "create_failed"]
    ELSE [cs |-> Put(cs, task_id, [name |-> <<"codestat", repository_id, task_id>>,
                                   status |-> "created"]),
          id |-> task_id, status |-> "created", exc |-> Null]

\* ContainerManager.create_or_get_container after its get_container call
\* has returned existing: [cs, id, status, exc].  The runtime rejects a
\* create for a name that has been taken since the lookup (409 Conflict, an
\* APIError).
create_or_get_container(cs, task_id, repository_id, fault, existing) ==
    LET name == _get_container_name(repository_id)
    IN IF existing.id # None
       THEN [cs |-> cs, id |-> existing.id, status |-> existing.status,
             exc |-> Null]
       ELSE IF fault = "create_error"
       THEN [cs |-> cs, id |-> None, status |-> "none", exc |-> "create_failed"]
       ELSE IF NameTaken(cs, name)
       THEN [cs |-> cs, id |-> None, status |-> "none", exc |-> "create_conflict"]
       ELSE [cs |-> Put(cs, task_id, [name |-> name, status |-> "created"]),
             id |-> task_id, status |-> "created", exc |-> Null]

\* Variant of start_task that returns the container without starting it.
start_task_without_start(cs, task_id, repository_id, fault, existing) ==
    create_or_get_container(cs, task_id, repository_id, fault, existing)

\* The task whose TASK_ID, BRANCH, COMMIT_SHA and CLOC_ARGS the environment
\* of container c holds: the environment is fixed by containers.create, and
\* the model names a container after the task it was created for.
EnvTask(c) == c

\* ContainerManager.start_task after the lookup: [cs, id, status, exc].
\* container.status is the attribute of the object held, not reloaded;
\* container.start() of a container removed since raises NotFound, an
\* APIError.
start_task(cs, task_id, repository_id, fault, existing) ==
    LET got == create_or_get_container(cs, task_id, repository_id, fault, existing)
    IN IF got.exc # Null THEN got
       ELSE IF got.status # "running"
       THEN IF fault = "start_error" \/ got.id \notin DOMAIN got.cs
            THEN [cs |-> got.cs, id |-> None, status |-> "none",
                  exc |-> "start_failed"]
            ELSE [cs |-> [got.cs EXCEPT ![got.id].status = "running"],
                  id |-> got.id, status |-> "running", exc |-> Null]
       ELSE got

\* A fault is drawn only where the call it hits is made.
FaultApplies(existing, fault) ==
    CASE fault = "create_error" -> existing.id = None
      [] fault = "start_error"  -> existing.status # "running"
      [] OTHER -> TRUE

\* Variant of get_task_status that reports a container that no longer
\* resolves as exited.
get_task_status_missing_as_exited(cs, container_id) ==
    IF container_id \in DOMAIN cs THEN cs[container_id].status ELSE "exited"

\* ContainerManager.get_task_status: the runtime's status, or "not_found".
get_task_status(cs, container_id) ==
    IF container_id \in DOMAIN cs THEN cs[container_id].status ELSE "not_found"

\* ContainerManager.get_task_result: the parsed document, or None when the
\* file is missing or does not parse.  An empty document parses to {}.
get_task_result(files, task_id) ==
    CASE files[task_id] = "doc"   -> "doc"
      [] files[task_id] = "empty" -> "empty"
      [] OTHER -> Null

\* What leaves get_task_result other than its return value.  `except
\* (json.JSONDecodeError, IOError)` catches a text that is no JSON
\* ("malformed") and an error of the file system; a file whose bytes are no
\* text in the encoding of open(path, "r") ("undecodable") makes json.load
\* raise UnicodeDecodeError, a ValueError that is neither.
get_task_result_exc(files, task_id) ==
    IF files[task_id] = "undecodable" THEN "UnicodeDecodeError" ELSE Null

\* `if result:` -- None and the empty dict are falsy.
Truthy(result) == result # Null /\ result # "empty"

\* ContainerManager.stop_container: [cs, exc].  Only NotFound is caught by
\* the lookup; an APIError of container.stop is swallowed.
stop_container(cs, repository_id, fault) ==
    LET c == get_container(cs, repository_id)
    IN IF fault = "docker_error" THEN [cs |-> cs, exc |-> "docker_error"]
       ELSE IF c # None /\ cs[c].status = "running" /\ fault # "stop_error"
       THEN [cs |-> [cs EXCEPT ![c].status = "exited"], exc |-> Null]
       ELSE [cs |-> cs, exc |-> Null]

StopFaults == {"none", "docker_error", "stop_error"}

\* ContainerManager.remove_container(force=True), reached from the
\* administrative API.
remove_container(cs, repository_id) ==
    LET c == get_container(cs, repository_id)
    IN IF c # None THEN Drop(cs, {c}) ELSE cs

\* ContainerManager.remove_container(force=True) under a fault of the
\* runtime: [cs, exc].  Only NotFound is caught by the lookup; an APIError
\* of container.remove is swallowed.
remove_container_outcome(cs, repository_id, fault) ==
    IF fault = "docker_error" THEN [cs |-> cs, exc |-> "docker_error"]
    ELSE IF fault = "remove_error" THEN [cs |-> cs, exc |-> Null]
    ELSE [cs |-> remove_container(cs, repository_id), exc |-> Null]

RemoveFaults == {"none", "docker_error", "remove_error"}

\* ------------------------------------------------------ TaskScheduler

\* TaskScheduler.get_repository_config.
get_repository_config(repository_id) ==
    IF repository_id \in DOMAIN repository_configs
    THEN repository_configs[repository_id]
    ELSE default_cloc_config

\* Variant of set_repository_config for tasks that hold the live entry and
\* not a configuration of their own: the tasks of the repository follow.
set_repository_config_in_place(repository_id, timeout) ==
    /\ repository_configs' = Put(repository_configs, repository_id, timeout)
    /\ tasks' = [t \in DOMAIN tasks |->
                    IF tasks[t].repository_id = repository_id
                    THEN [tasks[t] EXCEPT !.timeout = timeout]
                    ELSE tasks[t]]
    /\ UNCHANGED <<elapsed, default_cloc_config, looked, orphans, sync, db, _running, starting, mpc, cur,
                   todo, stop_pc, containers, results, now, issued, hist>>

\* TaskScheduler.set_repository_config.
set_repository_config(repository_id, timeout) ==
    /\ repository_configs' = Put(repository_configs, repository_id, timeout)
    /\ UNCHANGED <<elapsed, tasks, default_cloc_config, looked, orphans, sync, db, _running, starting, mpc, cur,
                   todo, stop_pc, containers, results, now, issued, hist>>

\* _execute_task up to its await: RUNNING and started_at are set before the
\* start call is off-loaded.
_execute_task_begin(task) ==
    [task EXCEPT !.status = "running", !.started_at = now]

\* Variant of the handler of _execute_task that catches RuntimeError only.
CatchesRuntimeErrorOnly(exc) ==
    exc \in {"create_failed", "create_conflict", "start_failed"}

\* `except Exception` of _execute_task: every exception of start_task.
Catches(exc) == TRUE

\* Variant of the handler of _execute_task that records no error_message.
_execute_task_end_no_message(task, got) ==
    IF got.exc = Null
    THEN [task EXCEPT !.container_id = got.id]
    ELSE [task EXCEPT !.status = "failed", !.finished_at = now]

\* Variant of _execute_task that drops the reference start_task returned.
_execute_task_end_drops_ref(task, got) ==
    IF got.exc = Null
    THEN task
    ELSE [task EXCEPT !.status = "failed", !.finished_at = now,
                      !.error_message = got.exc]

\* _execute_task after its await.
_execute_task_end(task, got) ==
    IF got.exc = Null
    THEN [task EXCEPT !.container_id = got.id]
    ELSE IF Catches(got.exc)
    THEN [task EXCEPT !.status = "failed", !.finished_at = now,
                      !.error_message = got.exc]
    ELSE task

\* Repository ids are interchangeable: the first repository that pushes is
\* called "r1", the next new one "r2".
KnownRepos ==
    IF issued = 0 THEN {"r1"} ELSE Repos

\* schedule_from_push_event up to the await inside _execute_task: the task
\* is registered as PENDING under task_id and, in the same run, set RUNNING.
\* task_id is what line 59 generates: repository_id, commit_sha[:7] and
\* eight hex digits of a uuid4 draw.  An id generated before can only be
\* generated again for the same repository (and commit); the cases of an id
\* whose own start call is still in flight, or whose task a pass under way
\* still holds, are left out.
schedule_from_push_event(repository_id, task_id) ==
    /\ issued < MaxTasks
    /\ repository_id \in KnownRepos
    /\ task_id \notin starting
    /\ task_id \in DOMAIN tasks => tasks[task_id].repository_id = repository_id
    /\ task_id # cur
    /\ \A i \in 1..Len(todo) : todo[i] # task_id
    /\ LET task == StatTask(repository_id, get_repository_config(repository_id), now)
       IN /\ tasks' = Put(tasks, task_id, _execute_task_begin(task))
          /\ starting' = starting \cup {task_id}
          /\ issued' = issued + 1
          /\ hist' = [hist EXCEPT !.called_after =
                          Put(@, task_id, DOMAIN tasks \ starting)]
    /\ UNCHANGED <<elapsed, repository_configs, default_cloc_config, looked, orphans, sync, db, _running, mpc, cur,
                   todo, stop_pc, containers, results, now>>

\* The start_task thread of the call for task_id has made its get_container
\* call.  Threads of several calls run side by side.
start_task_looks_up(task_id) ==
    /\ task_id \in starting
    /\ task_id \notin DOMAIN looked
    /\ looked' = Put(looked, task_id,
                     Lookup(containers, tasks[task_id].repository_id))
    /\ UNCHANGED <<tasks, repository_configs, default_cloc_config, _running,
                   starting, orphans, sync, db, mpc, cur, todo, elapsed, stop_pc,
                   containers, results, now, issued, hist>>

\* The off-loaded start_task call completes and schedule_from_push_event
\* runs to its return (or raises what _execute_task does not catch).  A
\* runtime error other than NotFound is raised by the lookup itself.
schedule_returns(task_id, fault) ==
    /\ task_id \in starting
    /\ IF fault = "docker_error"
       THEN task_id \notin DOMAIN looked
       ELSE task_id \in DOMAIN looked /\ FaultApplies(looked[task_id], fault)
    /\ LET got == IF fault = "docker_error"
                  THEN [cs |-> containers, id |-> None, status |-> "none",
                        exc |-> "docker_error"]
                  ELSE start_task(containers, task_id,
                                  tasks[task_id].repository_id, fault,
                                  looked[task_id])
           task == _execute_task_end(tasks[task_id], got)
       IN /\ containers' = got.cs
          /\ tasks' = [tasks EXCEPT ![task_id] = task]
          /\ hist' = [hist EXCEPT
                 !.called_after = Drop(@, {task_id}),
                 !.started = got.id,
                 !.raised = IF got.exc # Null /\ ~Catches(got.exc)
                            THEN @ \cup {task_id} ELSE @]
    /\ starting' = starting \ {task_id}
    /\ looked' = Drop(looked, {task_id})
    /\ UNCHANGED <<elapsed, repository_configs, default_cloc_config, orphans,
                   sync, db, _running, mpc, cur, todo, stop_pc, results, now,
                   issued>>

\* ------------------------------------------------------- environment

\* The clock advances.
Tick ==
    /\ now < MaxTime
    /\ now' = now + 1
    /\ UNCHANGED <<elapsed, tasks, repository_configs, default_cloc_config, looked, orphans, sync, db, _running,
                   starting, mpc, cur, todo, stop_pc, containers, results,
                   issued, hist>>

\* The worker process of container c ends.  Before it ends it may have
\* written the result file of its TASK_ID, the task the container was
\* created for: a document or an empty document.
ContainerExits(c, written) ==
    /\ c \in DOMAIN containers
    /\ containers[c].status = "running"
    /\ containers' = [containers EXCEPT ![c].status = "exited"]
    /\ results' = IF written = "nothing" THEN results
                  ELSE [results EXCEPT ![c] = written]
    /\ UNCHANGED <<elapsed, tasks, repository_configs, default_cloc_config, looked, orphans, sync, db, _running,
                   starting, mpc, cur, todo, stop_pc, now, issued, hist>>

\* DELETE /containers/{repository_id}: remove_container(force=True).
AdminRemoveContainer(repository_id) ==
    /\ get_container(containers, repository_id) # None
    /\ containers' = remove_container(containers, repository_id)
    /\ UNCHANGED <<elapsed, tasks, repository_configs, default_cloc_config, looked, orphans, sync, db, _running,
                   starting, mpc, cur, todo, stop_pc, results, now, issued,
                   hist>>

\* ContainerManager.cleanup_stopped_containers: every exited container is
\* removed.
cleanup_stopped_containers(cs) ==
    Drop(cs, {c \in DOMAIN cs : cs[c].status = "exited"})

\* POST /containers/cleanup.
AdminCleanupContainers ==
    /\ \E c \in DOMAIN containers : containers[c].status = "exited"
    /\ containers' = cleanup_stopped_containers(containers)
    /\ UNCHANGED <<tasks, repository_configs, default_cloc_config, _running,
                   starting, looked, orphans, sync, db, mpc, cur, todo, elapsed,
                   stop_pc, results, now, issued, hist>>

\* ------------------------------------------- reconciliation and retention

\* `if task.status != TaskStatus.RUNNING or not task.container_id: continue`
Eligible(task) == task.status = "running" /\ task.container_id # None

\* `elapsed > task.cloc_config.timeout` for a task with started_at.
Overdue(task) ==
    task.started_at # None /\ now - task.started_at > task.timeout

\* f"Task timeout after {elapsed:.0f}s" for whole seconds.
TimeoutMessage(seconds) == "Task timeout after " \o ToString(seconds) \o "s"

\* completed_tasks of _cleanup_old_tasks: terminal and finished_at set.
Completed(ts) ==
    {t \in DOMAIN ts : ts[t].status \in Terminal /\ ts[t].finished_at # None}

\* Variant of the sort with the newest finished_at first.
RECURSIVE SortNewestFirst(_, _)
SortNewestFirst(ts, S) ==
    IF S = {} THEN <<>>
    ELSE LET m == CHOOSE x \in S : \A y \in S :
                     \/ ts[x].finished_at > ts[y].finished_at
                     \/ ts[x].finished_at = ts[y].finished_at /\ x <= y
         IN <<m>> \o SortNewestFirst(ts, S \ {m})

\* completed_tasks.sort(key=finished_at): stable, so ties keep dict order.
RECURSIVE SortByFinished(_, _)
SortByFinished(ts, S) ==
    IF S = {} THEN <<>>
    ELSE LET m == CHOOSE x \in S : \A y \in S :
                     \/ ts[x].finished_at < ts[y].finished_at
                     \/ ts[x].finished_at = ts[y].finished_at /\ x <= y
         IN <<m>> \o SortByFinished(ts, S \ {m})

\* completed_tasks[:to_remove]
Prefix(seq, n) == {seq[i] : i \in 1..(IF n < Len(seq) THEN n ELSE Len(seq))}

\* TaskScheduler._cleanup_old_tasks: the registry after the retention pass.
_cleanup_old_tasks(ts) ==
    IF Cardinality(DOMAIN ts) <= max_tasks THEN ts
    ELSE LET completed_tasks == SortByFinished(ts, Completed(ts))
             to_remove == Cardinality(DOMAIN ts) - max_tasks
         IN Drop(ts, Prefix(completed_tasks, to_remove))

\* The record of the retention pass run on registry ts.
Retention(ts) ==
    LET out == _cleanup_old_tasks(ts)
        gone == DOMAIN ts \ DOMAIN out
    IN [size_in     |-> Cardinality(DOMAIN ts),
        terminal_in |-> Cardinality({t \in DOMAIN ts : ts[t].status \in Terminal}),
        size_out    |-> Cardinality(DOMAIN out),
        evicted     |-> {[status |-> ts[t].status,
                          finished_at |-> ts[t].finished_at] : t \in gone},
        kept        |-> {out[t].finished_at : t \in Completed(out)}]

\* Index in td of the first task the loop does not skip, 0 if none.
FirstEligible(ts, td) ==
    LET ok == {i \in 1..Len(td) : Eligible(ts[td[i]])}
    IN IF ok = {} THEN 0 ELSE CHOOSE i \in ok : \A j \in ok : i <= j

\* The for loop of _check_running_tasks from its head to the next await:
\* skipped tasks take no step of their own.  With no task left the pass
\* ends, _cleanup_old_tasks runs and the loop sleeps.
ResumeLoop(ts, td, h) ==
    LET k == FirstEligible(ts, td)
    IN IF k = 0
       THEN /\ tasks' = _cleanup_old_tasks(ts)
            /\ mpc' = "sleep"
            /\ cur' = None
            /\ todo' = <<>>
            /\ elapsed' = None
            /\ hist' = [h EXCEPT !.overdue = FALSE,
                                  !.retention = Retention(ts)]
       ELSE /\ tasks' = ts
            /\ mpc' = "await_status"
            /\ cur' = td[k]
            /\ todo' = SubSeq(td, k + 1, Len(td))
            /\ elapsed' = None
            /\ hist' = [h EXCEPT !.overdue = Overdue(ts[td[k]])]

\* Variant of the handler of _monitor_tasks that lets the exception end the
\* loop's coroutine.
PassRaisesAndEnds(ts, exc) ==
    /\ tasks' = ts
    /\ mpc' = "none"
    /\ cur' = None
    /\ todo' = <<>>
    /\ elapsed' = None
    /\ hist' = [hist EXCEPT !.overdue = FALSE, !.last_error = exc]

\* An exception leaves _check_running_tasks: `except Exception` of
\* _monitor_tasks logs it, _cleanup_old_tasks is skipped, the loop sleeps.
PassRaises(ts, exc) ==
    /\ tasks' = ts
    /\ mpc' = "sleep"
    /\ cur' = None
    /\ todo' = <<>>
    /\ elapsed' = None
    /\ hist' = [hist EXCEPT !.overdue = FALSE, !.last_error = exc]

\* Variant of the timeout check that takes every task that has started for
\* overdue.
TimeoutCheckAnyElapsed(ts, td) ==
    IF ts[cur].started_at # None
    THEN /\ tasks' = ts
         /\ mpc' = "await_stop"
         /\ elapsed' = now - ts[cur].started_at
         /\ UNCHANGED <<cur, todo, hist>>
    ELSE ResumeLoop(ts, td, hist)

\* `# Check timeout` of _check_running_tasks, up to its await.
TimeoutCheck(ts, td) ==
    IF Overdue(ts[cur])
    THEN /\ tasks' = ts
         /\ mpc' = "await_stop"
         /\ elapsed' = now - ts[cur].started_at
         /\ UNCHANGED <<cur, todo, hist>>
    ELSE ResumeLoop(ts, td, hist)

\* _monitor_tasks wakes (first run or end of asyncio.sleep(5)) and
\* _check_running_tasks takes its snapshot list(self.tasks.values()).
monitor_pass_begins ==
    /\ mpc = "sleep"
    /\ _running
    /\ ResumeLoop(tasks, Ascending(DOMAIN tasks),
                  [hist EXCEPT !.retention = NoRetention, !.last_error = Null])
    /\ UNCHANGED <<repository_configs, default_cloc_config, looked, orphans, sync, db, _running, starting,
                   stop_pc, containers, results, now, issued>>

\* The off-loaded get_task_status call completes.  An error of the runtime
\* other than NotFound is not caught by get_task_status.
status_returns(fault) ==
    /\ mpc = "await_status"
    /\ LET status == get_task_status(containers, tasks[cur].container_id)
       IN IF fault = "docker_error" THEN PassRaises(tasks, "docker_error")
          ELSE IF status = "exited"
          THEN /\ mpc' = "await_result"
               /\ UNCHANGED <<tasks, cur, todo, elapsed, hist>>
          ELSE IF status = "not_found"
          THEN TimeoutCheck([tasks EXCEPT
                   ![cur].status = "failed",
                   ![cur].error_message = "Container not found",
                   ![cur].finished_at = now], todo)
          ELSE TimeoutCheck(tasks, todo)
    /\ UNCHANGED <<repository_configs, default_cloc_config, looked, orphans, sync, db, _running, starting,
                   stop_pc, containers, results, now, issued>>

\* The off-loaded get_task_result call completes.  On a falsy result the
\* task is set FAILED, and then `self.container_manager.get_container_logs`
\* is evaluated: ContainerManager defines no such attribute, so
\* AttributeError is raised before finished_at is set.
result_returns ==
    /\ mpc = "await_result"
    /\ LET result == get_task_result(results, cur)
       IN IF get_task_result_exc(results, cur) # Null
          THEN PassRaises(tasks, get_task_result_exc(results, cur))
          ELSE IF Truthy(result)
          THEN TimeoutCheck([tasks EXCEPT
                   ![cur].status = "success",
                   ![cur].result = result,
                   ![cur].finished_at = now], todo)
          ELSE PassRaises([tasks EXCEPT
                   ![cur].status = "failed",
                   ![cur].error_message = "No result file generated"],
                   "AttributeError")
    /\ UNCHANGED <<repository_configs, default_cloc_config, looked, orphans, sync, db, _running, starting,
                   stop_pc, containers, results, now, issued>>

\* The off-loaded stop_container call completes and the task is marked
\* TIMEOUT.
stop_returns(fault) ==
    /\ mpc = "await_stop"
    /\ LET got == stop_container(containers, tasks[cur].repository_id, fault)
       IN /\ containers' = got.cs
          /\ IF got.exc # Null THEN PassRaises(tasks, got.exc)
             ELSE ResumeLoop([tasks EXCEPT
                      ![cur].status = "timeout",
                      ![cur].finished_at = now,
                      ![cur].error_message = TimeoutMessage(elapsed)],
                      todo, hist)
    /\ UNCHANGED <<repository_configs, default_cloc_config, looked, orphans, sync, db, _running, starting,
                   stop_pc, results, now, issued>>

\* A runtime call of a cancelled pass ends in its worker thread: nobody
\* takes its result, but a stop_container call has stopped the container.
orphan_completes(o, fault) ==
    /\ o \in orphans
    /\ orphans' = orphans \ {o}
    /\ IF o.call = "stop_container"
       THEN containers' = stop_container(containers, o.repository_id, fault).cs
       ELSE fault = "none" /\ UNCHANGED containers
    /\ UNCHANGED <<tasks, repository_configs, default_cloc_config, _running,
                   starting, looked, sync, db, mpc, cur, todo, elapsed, stop_pc,
                   results, now, issued, hist>>

\* The body of the for loop of _check_running_tasks for task t, run with
\* no other coroutine and no change of the runtime in between, and with a
\* runtime that answers every call: st is the registry, the containers and
\* the exception that has left the pass, if any.
VisitTask(st, files, t) ==
    IF st.exc # Null \/ ~Eligible(st.ts[t]) THEN st
    ELSE LET status == get_task_status(st.cs, st.ts[t].container_id)
             result == get_task_result(files, t)
             polled ==
                 IF status = "exited" /\ Truthy(result)
                 THEN [st.ts EXCEPT ![t].status = "success",
                                    ![t].result = result,
                                    ![t].finished_at = now]
                 ELSE IF status = "exited"
                 THEN [st.ts EXCEPT ![t].status = "failed",
                           ![t].error_message = "No result file generated"]
                 ELSE IF status = "not_found"
                 THEN [st.ts EXCEPT ![t].status = "failed",
                           ![t].error_message = "Container not found",
                           ![t].finished_at = now]
                 ELSE st.ts
         IN IF status = "exited" /\ get_task_result_exc(files, t) # Null
            THEN [st EXCEPT !.exc = get_task_result_exc(files, t)]
            ELSE IF status = "exited" /\ ~Truthy(result)
            THEN [ts |-> polled, cs |-> st.cs, exc |-> "AttributeError"]
            ELSE IF Overdue(polled[t])
            THEN [ts |-> [polled EXCEPT
                            ![t].status = "timeout",
                            ![t].finished_at = now,
                            ![t].error_message =
                                TimeoutMessage(now - polled[t].started_at)],
                  cs |-> stop_container(st.cs, polled[t].repository_id,
                                        "none").cs,
                  exc |-> Null]
            ELSE [ts |-> polled, cs |-> st.cs, exc |-> Null]

\* _check_running_tasks over the tasks in the order td.
RECURSIVE VisitAll(_, _, _)
VisitAll(st, files, td) ==
    IF td = <<>> THEN st
    ELSE VisitAll(VisitTask(st, files, Head(td)), files, Tail(td))

\* The status of every task after one pass that visits the tasks of
\* registry ts in the order td.
StatusesAfterPass(ts, cs, files, td) ==
    LET out == VisitAll([ts |-> ts, cs |-> cs, exc |-> Null], files, td).ts
    IN [t \in DOMAIN ts |-> out[t].status]

\* The orders in which the tasks in S can be visited.
RECURSIVE Orders(_)
Orders(S) ==
    IF S = {} THEN {<<>>}
    ELSE UNION {{<<t>> \o o : o \in Orders(S \ {t})} : t \in S}

\* ------------------------------------------------- persistence sync loop

\* sync_tasks wakes and `for task in scheduler.tasks.values()` makes its
\* iterator over the live dict and takes the first task, up to
\* `await db.save_task(task)`.
sync_begins ==
    /\ sync.pc = "sleep"
    /\ sync' = IF DOMAIN tasks = {}
               THEN SyncIdle
               ELSE [pc     |-> "saving",
                     used   |-> Cardinality(DOMAIN tasks),
                     left   |-> Cardinality(DOMAIN tasks) - 1,
                     pos    |-> CHOOSE t \in DOMAIN tasks :
                                    \A u \in DOMAIN tasks : t <= u,
                     failed |-> FALSE]
    /\ UNCHANGED <<tasks, repository_configs, default_cloc_config, _running,
                   starting, looked, orphans, db, mpc, cur, todo, elapsed,
                   stop_pc, containers, results, now, issued, hist>>

\* Variant of the iterator that walks a copy, list(self.tasks.values()),
\* taken when the iteration began: it yields what is left of the copy.
next_of_snapshot(it, ts) ==
    IF it.left = 0
    THEN SyncIdle
    ELSE LET rest == {t \in DOMAIN ts : t > it.pos}
         IN IF rest = {} THEN SyncIdle
            ELSE [it EXCEPT !.left = @ - 1,
                            !.pos = CHOOSE t \in rest : \A u \in rest : t <= u]

\* next() of the dict's values iterator: RuntimeError if the size of the
\* dict is not what it was when the iterator was made ("dictionary changed
\* size during iteration") or if an entry is left when all items have been
\* yielded ("dictionary keys changed during iteration"); `except Exception`
\* of sync_tasks logs it and the rest of the iteration is skipped.
next_of_live_dict(it, ts) ==
    LET rest == {t \in DOMAIN ts : t > it.pos}
    IN IF Cardinality(DOMAIN ts) # it.used
       THEN [SyncIdle EXCEPT !.failed = TRUE]
       ELSE IF rest = {} THEN SyncIdle
       ELSE IF it.left = 0
       THEN [SyncIdle EXCEPT !.failed = TRUE]
       ELSE [it EXCEPT !.left = @ - 1,
                       !.pos = CHOOSE t \in rest : \A u \in rest : t <= u]

\* The columns DatabaseManager.save_task writes on an update, of those the
\* registry changes after the first save.
Stored(task) ==
    [status        |-> task.status,
     container_id  |-> task.container_id,
     result        |-> task.result,
     error_message |-> task.error_message,
     started_at    |-> task.started_at,
     finished_at   |-> task.finished_at]

\* db.save_task returns, having written the task as it is now, and the for
\* loop asks its iterator for the next task.  (The record of a task evicted
\* while it was being saved is not followed.)
sync_save_returns ==
    /\ sync.pc = "saving"
    /\ db' = IF sync.pos \in DOMAIN tasks
             THEN [db EXCEPT !.rows = Put(@, sync.pos, Stored(tasks[sync.pos]))]
             ELSE db
    /\ sync' = next_of_live_dict(sync, tasks)
    /\ UNCHANGED <<tasks, repository_configs, default_cloc_config, _running,
                   starting, looked, orphans, mpc, cur, todo, elapsed, stop_pc,
                   containers, results, now, issued, hist>>

\* on_push after schedule_from_push_event has returned task_id's task:
\* `await db.save_task(task)` writes the task as it is when the save runs.
\* (The record of a task evicted before that is not followed.)
on_push_saves(task_id) ==
    /\ task_id \in 1..issued
    /\ task_id \notin starting
    /\ task_id \notin db.pushed
    /\ db' = [rows   |-> IF task_id \in DOMAIN tasks
                         THEN Put(db.rows, task_id, Stored(tasks[task_id]))
                         ELSE db.rows,
              pushed |-> db.pushed \cup {task_id}]
    /\ UNCHANGED <<tasks, repository_configs, default_cloc_config, _running,
                   starting, looked, orphans, sync, mpc, cur, todo, elapsed,
                   stop_pc, containers, results, now, issued, hist>>

\* ------------------------------------------------------------ queries

\* tasks.sort(key=created_at, reverse=True): stable, so tasks created at the
\* same time keep dict order.
RECURSIVE SortByCreatedNewestFirst(_, _)
SortByCreatedNewestFirst(ts, S) ==
    IF S = {} THEN <<>>
    ELSE LET m == CHOOSE x \in S : \A y \in S :
                     \/ ts[x].created_at > ts[y].created_at
                     \/ ts[x].created_at = ts[y].created_at /\ x <= y
         IN <<m>> \o SortByCreatedNewestFirst(ts, S \ {m})

\* tasks[:limit] for limit >= 0.
Cut(seq, limit) == SubSeq(seq, 1, IF limit < Len(seq) THEN limit ELSE Len(seq))

\* Variant of list_tasks that returns the oldest tasks first.
list_tasks_oldest_first(ts, repository_id, status, limit) ==
    LET by_repo == IF repository_id \notin {Null, ""}
                   THEN {t \in DOMAIN ts : ts[t].repository_id = repository_id}
                   ELSE DOMAIN ts
        by_status == IF status # Null
                     THEN {t \in by_repo : ts[t].status = status}
                     ELSE by_repo
    IN Cut(SortByFinished([t \in DOMAIN ts |->
                              [finished_at |-> ts[t].created_at]], by_status),
           limit)

\* TaskScheduler.list_tasks: the task ids of the list it returns.
\* `if repository_id:` -- None and "" are falsy; every TaskStatus is truthy.
list_tasks(ts, repository_id, status, limit) ==
    LET by_repo == IF repository_id \notin {Null, ""}
                   THEN {t \in DOMAIN ts : ts[t].repository_id = repository_id}
                   ELSE DOMAIN ts
        by_status == IF status # Null
                     THEN {t \in by_repo : ts[t].status = status}
                     ELSE by_repo
    IN Cut(SortByCreatedNewestFirst(ts, by_status), limit)

\* TaskScheduler.get_task: the task, or None.
get_task(ts, task_id) ==
    IF task_id \in DOMAIN ts THEN ts[task_id] ELSE Null

\* ------------------------------------------------------ start and stop

\* Variant of start without the `if self._running: return` guard: every
\* call creates a loop.
start_unguarded ==
    /\ stop_pc = "idle"
    /\ _running' = TRUE
    /\ mpc' = "sleep"
    /\ hist' = [hist EXCEPT !.cancelled_at = Null, !.loops = @ + 1]
    /\ UNCHANGED <<elapsed, tasks, repository_configs, default_cloc_config, looked, orphans, sync, db,
                   starting, cur, todo, stop_pc, containers, results, now,
                   issued>>

\* TaskScheduler.start.  The application calls start and stop one after
\* the other, never one while a stop call is awaiting the loop.  A call
\* while running returns at once.
start ==
    /\ stop_pc = "idle"
    /\ IF _running
       THEN UNCHANGED vars
       ELSE /\ _running' = TRUE
            /\ mpc' = "sleep"
            /\ hist' = [hist EXCEPT !.cancelled_at = Null, !.loops = @ + 1]
            /\ UNCHANGED <<elapsed, tasks, repository_configs,
                           default_cloc_config, looked, orphans, sync, db, starting, cur, todo, stop_pc,
                           containers, results, now, issued>>

\* Variant of stop that clears _running and returns without cancelling the
\* loop's task.
stop_without_cancel ==
    /\ _running
    /\ stop_pc = "idle"
    /\ _running' = FALSE
    /\ hist' = [hist EXCEPT !.cancelled_at = mpc]
    /\ UNCHANGED <<elapsed, tasks, repository_configs, default_cloc_config, looked, orphans, sync, db,
                   starting, mpc, cur, todo, stop_pc, containers, results, now,
                   issued>>

\* The runtime call the pass has off-loaded and is awaiting, if any: a
\* read (get_task_status, get_task_result) or stop_container.  Cancelling
\* the await does not end the call: asyncio.to_thread leaves it running in
\* its worker thread.
Pending ==
    IF mpc \in {"await_status", "await_result", "await_stop"}
    THEN {[task |-> cur,
           repository_id |-> tasks[cur].repository_id,
           call |-> IF mpc = "await_stop" THEN "stop_container"
                    ELSE "read"]}
    ELSE {}

\* TaskScheduler.stop up to `await self._monitor_task`: _running is cleared
\* and the loop's task is cancelled.  A call while not running returns at
\* once.  threads is the set of worker-thread calls left running.
stop_leaving(threads) ==
    /\ stop_pc = "idle"
    /\ IF ~_running
       THEN /\ hist' = [hist EXCEPT
                   !.cancelled_at = IF @ = Null THEN "none" ELSE @]
            /\ UNCHANGED <<elapsed, tasks, repository_configs,
                           default_cloc_config, looked, orphans, sync, db, _running, starting, mpc, cur,
                           todo, stop_pc, containers, results, now, issued>>
       ELSE /\ _running' = FALSE
            /\ mpc' = "cancelled"
            /\ stop_pc' = "awaiting"
            /\ orphans' = threads
            /\ hist' = [hist EXCEPT !.cancelled_at = mpc]
            /\ UNCHANGED <<elapsed, tasks, repository_configs,
                           default_cloc_config, looked, sync, db, starting, cur,
                           todo, containers, results, now, issued>>

\* TaskScheduler.stop where the worker thread of a cancelled call is not
\* followed: nobody takes its result, and what a stop_container call left
\* running does to the container, ContainerExits does as well.
stop == stop_leaving(orphans)

\* CancelledError is raised at the await the loop is suspended in; it is no
\* Exception, so `except Exception` lets it end the coroutine, and
\* `await self._monitor_task` of stop completes.
stop_completes ==
    /\ stop_pc = "awaiting"
    /\ mpc = "cancelled"
    /\ mpc' = "none"
    /\ cur' = None
    /\ todo' = <<>>
    /\ elapsed' = None
    /\ stop_pc' = "idle"
    /\ hist' = [hist EXCEPT !.overdue = FALSE, !.loops = @ - 1]
    /\ UNCHANGED <<tasks, repository_configs, default_cloc_config, looked, orphans, sync, db, _running,
                   starting, containers, results, now, issued>>

\* ------------------------------------------------------- specification

\* Every step other than the beginning of a schedule call and stop().
CommonSteps ==
    \/ \E t \in starting : start_task_looks_up(t)
    \/ \E t \in starting, f \in Faults : schedule_returns(t, f)
    \/ monitor_pass_begins
    \/ \E f \in {"none", "docker_error"} : status_returns(f)
    \/ result_returns
    \/ \E f \in StopFaults : stop_returns(f)
    \/ start
    \/ stop_completes
    \/ Tick
    \/ \E c \in DOMAIN containers, w \in {"nothing", "doc", "empty"} :
           ContainerExits(c, w)
    \/ \E r \in Repos : AdminRemoveContainer(r)
    \/ AdminCleanupContainers

\* Every step other than the beginning of a schedule call.
OtherSteps ==
    \/ CommonSteps
    \/ stop

\* The engine where every uuid4 draw is fresh: the ids are 1, 2, ... in call
\* order.
Next ==
    \/ \E r \in Repos : schedule_from_push_event(r, issued + 1)
    \/ OtherSteps

Spec == Init /\ [][Next]_vars

\* The engine where a uuid4 draw may repeat the eight hex digits of an
\* earlier draw.
CollidingNext ==
    \/ \E r \in Repos, id \in 1..(issued + 1) : schedule_from_push_event(r, id)
    \/ OtherSteps

CollidingSpec == Init /\ [][CollidingNext]_vars

\* The engine with the worker threads of cancelled calls followed to their
\* end.
ThreadNext ==
    \/ \E r \in Repos : schedule_from_push_event(r, issued + 1)
    \/ CommonSteps
    \/ stop_leaving(orphans \cup Pending)
    \/ \E o \in orphans, f \in {"none", "stop_error"} : orphan_completes(o, f)

ThreadSpec == Init /\ [][ThreadNext]_vars

\* The engine with workers that may leave a result file that does not
\* parse: a text that is no JSON, or bytes that are no text.
ParseNext ==
    \/ Next
    \/ \E c \in DOMAIN containers, w \in {"malformed", "undecodable"} :
           ContainerExits(c, w)

ParseSpec == Init /\ [][ParseNext]_vars

\* The conditions under which every task is to be settled: the event loop
\* resumes the loop's coroutine and the coroutines of the calls, the clock
\* advances, and the runtime answers: of the calls the passes make, some
\* return without a fault of the runtime again and again.
Fairness ==
    /\ WF_vars(monitor_pass_begins)
    /\ WF_vars(\E t \in starting : start_task_looks_up(t))
    /\ WF_vars(\E t \in starting, f \in Faults : schedule_returns(t, f))
    /\ SF_vars(status_returns("none"))
    /\ WF_vars(result_returns)
    /\ SF_vars(stop_returns("none"))
    /\ WF_vars(stop_completes)
    /\ WF_vars(Tick)

\* The engine with workers that may leave any result file, scheduled
\* fairly, with an advancing clock and an answering runtime.
FairParseSpec == ParseSpec /\ Fairness

\* The engine inside the application, with on_push and the persistence
\* sync loop, while the process keeps running (stop() is called at shutdown
\* only) and the runtime answers every call without a fault.
SyncNext ==
    \/ \E r \in Repos : schedule_from_push_event(r, issued + 1)
    \/ \E t \in starting : start_task_looks_up(t)
    \/ \E t \in starting : schedule_returns(t, "none")
    \/ \E t \in 1..issued : on_push_saves(t)
    \/ start
    \/ monitor_pass_begins
    \/ status_returns("none")
    \/ result_returns
    \/ stop_returns("none")
    \/ Tick
    \/ \E c \in DOMAIN containers, w \in {"nothing", "doc"} :
           ContainerExits(c, w)
    \/ sync_begins
    \/ sync_save_returns

SyncSpec == Init /\ [][SyncNext]_vars

\* ClocConfig.timeout values of the configurations set_repository_config
\* is called with.
ConfigTimeouts == {1, 2}

\* The repositories that are given a configuration of their own; the others
\* use the default.
ConfigRepos == {"r1"}

\* The engine with set_repository_config called at any time.
ConfigNext ==
    \/ Next
    \/ \E r \in ConfigRepos, c \in ConfigTimeouts : set_repository_config(r, c)

ConfigSpec == Init /\ [][ConfigNext]_vars

\* ClocConfig.timeout of a repository whose tasks are overdue as soon as
\* the clock has advanced, so that the clock can advance again while an
\* overdue task is being handled.
ShortTimeouts == {0}

\* The engine with a repository configured with a short timeout.
ShortNext ==
    \/ Next
    \/ \E r \in ConfigRepos, c \in ShortTimeouts : set_repository_config(r, c)

ShortSpec == Init /\ [][ShortNext]_vars

\* The event loop resumes the loop's coroutine when its asyncio.sleep(5)
\* has elapsed.
FairSpec == Spec /\ WF_vars(monitor_pass_begins)

\* ------------------------------------------------------------- claims

\* The tasks whose schedule call returns in this step.
Returning == starting \ starting'

\* C1: in every reachable state, every task in the registry has finished_at
\* set if and only if its status is SUCCESS, FAILED or TIMEOUT.
C1_FinishedIffTerminal ==
    \A t \in DOMAIN tasks :
        (tasks[t].finished_at # None) <=> (tasks[t].status \in Terminal)

\* C2: in every reachable state, a task in the registry has a result only
\* if its status is SUCCESS.
C2_ResultOnlyOnSuccess ==
    \A t \in DOMAIN tasks :
        tasks[t].result # Null => tasks[t].status = "success"

\* The iteration of the loop for task cur ends in this step, and not by
\* cancellation.
IterationEnds ==
    /\ mpc \in {"await_status", "await_result", "await_stop"}
    /\ cur' # cur

\* C3: a RUNNING task that is past its timeout when a reconciliation pass
\* visits it is TIMEOUT when the pass has dealt with it, whatever status the
\* runtime reports (no runtime call raising).
C3_OverdueBecomesTimeout ==
    [][(IterationEnds /\ hist.overdue /\ hist'.last_error # "docker_error"
            /\ cur \in DOMAIN tasks')
        => tasks'[cur].status = "timeout"]_vars

\* The edges of the task state machine.
Edges ==
    {<<"pending", "running">>, <<"pending", "failed">>,
     <<"running", "success">>, <<"running", "failed">>,
     <<"running", "timeout">>}

\* C4: every change of a task's status between two observable states
\* follows an edge of the state machine; a terminal status never changes.
C4_OnlyStateMachineEdges ==
    [][\A t \in DOMAIN tasks \cap DOMAIN tasks' :
          tasks'[t].status # tasks[t].status
              => <<tasks[t].status, tasks'[t].status>> \in Edges]_vars

\* C5: a schedule call whose start call fails returns the task FAILED with
\* finished_at and error_message set and container_ref unset, and the task
\* was not RUNNING while the start call was in flight.
C5_FailedStartNeverRunning ==
    [][\A t \in Returning :
          tasks'[t].status = "failed"
              => /\ tasks[t].status # "running"
                 /\ tasks'[t].finished_at # None
                 /\ tasks'[t].error_message # Null
                 /\ tasks'[t].container_id = None]_vars

\* C6: no schedule call ends with an exception, and the task a call returns
\* is in the registry under its task_id with status RUNNING or FAILED.
C6_ScheduleAlwaysReturnsTask ==
    /\ [](hist.raised = {})
    /\ [][\A t \in Returning :
             /\ t \in DOMAIN tasks'
             /\ tasks'[t].status \in {"running", "failed"}]_vars

\* C6 witness: a call has returned a task FAILED by a runtime error that is
\* neither a creation nor a start error, and another has returned RUNNING.
C6_Witness ==
    /\ \E t \in DOMAIN tasks \ starting :
          tasks[t].status = "failed" /\ tasks[t].error_message = "docker_error"
    /\ \E t \in DOMAIN tasks \ starting :
          tasks[t].status = "running" /\ tasks[t].container_id # None

\* A stop() call has returned and start() has not been called since.
Stopped ==
    ~_running /\ stop_pc = "idle" /\ hist.cancelled_at # Null

\* C7: after stop() has returned and until start() is called, no loop
\* coroutine is left, no task is evicted, and no task other than those of
\* schedule calls in flight changes status, finished_at, result or
\* error_message.
C7_NoPassAfterStop ==
    /\ [](Stopped => mpc = "none")
    /\ [][Stopped =>
            /\ DOMAIN tasks \subseteq DOMAIN tasks'
            /\ \A t \in DOMAIN tasks \ starting :
                  /\ tasks'[t].status = tasks[t].status
                  /\ tasks'[t].finished_at = tasks[t].finished_at
                  /\ tasks'[t].result = tasks[t].result
                  /\ tasks'[t].error_message = tasks[t].error_message]_vars

\* C7 witness: stop() has returned after cancelling a pass that was
\* suspended in an off-loaded runtime call, and a RUNNING task past its
\* timeout is left for a pass to deal with.
C7_Witness ==
    /\ Stopped
    /\ hist.cancelled_at \in {"await_status", "await_result", "await_stop"}
    /\ \E t \in DOMAIN tasks : Eligible(tasks[t]) /\ Overdue(tasks[t])

\* Containers of the repository's name.
Named(cs, repository_id) ==
    {c \in DOMAIN cs : cs[c].name = _get_container_name(repository_id)}

\* C8 as stated: when a schedule call for a repository returns, every task
\* of the same repository whose call had returned before this call was made
\* has the same container_ref, and the runtime holds one container of the
\* repository's name, provided a container of that name has been there
\* since the earlier call.
C8_SequentialShareContainer ==
    [][\A t2 \in Returning : \A t1 \in hist.called_after[t2] :
          (/\ t1 \in DOMAIN tasks'
           /\ tasks'[t1].repository_id = tasks'[t2].repository_id
           /\ \E c \in Named(containers', tasks'[t1].repository_id) : c <= t1)
          => /\ tasks'[t1].container_id = tasks'[t2].container_id
             /\ Cardinality(Named(containers', tasks'[t1].repository_id)) = 1]_vars

\* C8 amended: the same, for two calls that both returned a task with a
\* container_ref (neither start call failed) where the container of the
\* earlier task has not been removed.
C8_SequentialShareContainerIfStarted ==
    [][\A t2 \in Returning : \A t1 \in hist.called_after[t2] :
          (/\ t1 \in DOMAIN tasks'
           /\ tasks'[t1].repository_id = tasks'[t2].repository_id
           /\ tasks'[t1].container_id # None
           /\ tasks'[t2].container_id # None
           /\ tasks'[t1].container_id \in DOMAIN containers')
          => /\ t1 # t2
             /\ tasks'[t1].container_id = tasks'[t2].container_id
             /\ Cardinality(Named(containers', tasks'[t1].repository_id)) = 1]_vars

\* C8 witness: a task finished before a second task of the same repository
\* was scheduled, and the second call has returned the first task's
\* container, which is still there.
C8_Witness ==
    \E t1, t2 \in DOMAIN tasks :
        /\ tasks[t1].repository_id = tasks[t2].repository_id
        /\ tasks[t1].status = "success"
        /\ tasks[t1].finished_at < tasks[t2].started_at
        /\ t2 \notin starting
        /\ tasks[t2].container_id # None
        /\ tasks[t2].container_id = tasks[t1].container_id
        /\ tasks[t1].container_id \in DOMAIN containers

\* C9: the last retention pass removed terminal tasks only, and no completed
\* task it kept has a finished_at earlier than that of a task it removed.
C9_EvictsOldestTerminal ==
    \A e \in hist.retention.evicted :
        /\ e.status \in Terminal
        /\ \A k \in hist.retention.kept : ~(k < e.finished_at)

\* C9 witness: a retention pass removed a task and kept a completed task
\* that finished later.
C9_Witness ==
    \E e \in hist.retention.evicted : \E k \in hist.retention.kept :
        k > e.finished_at

\* C10: a retention pass that begins with the registry above the maximum
\* and with at least (size - maximum) terminal tasks ends with the registry
\* at or below the maximum.
C10_RetentionRestoresMaximum ==
    (/\ hist.retention.size_in > max_tasks
     /\ hist.retention.terminal_in >= hist.retention.size_in - max_tasks)
    => hist.retention.size_out <= max_tasks

\* C11: a schedule call whose start call succeeds returns its task RUNNING,
\* with container_ref the reference the backend returned, started_at set,
\* and finished_at, result and error_message unset.
C11_StartedTaskIsRunning ==
    [][\A t \in Returning :
          hist'.started # None
              => /\ tasks'[t].status = "running"
                 /\ tasks'[t].container_id = hist'.started
                 /\ tasks'[t].started_at # None
                 /\ tasks'[t].finished_at = None
                 /\ tasks'[t].result = Null
                 /\ tasks'[t].error_message = Null]_vars

\* C11 witness: a call has returned a task with the reference the backend
\* returned, a running container of the repository's name, while a pass of
\* the loop was under way.
C11_Witness ==
    \E t \in DOMAIN tasks \ starting :
        /\ hist.started # None
        /\ tasks[t].container_id = hist.started
        /\ tasks[t].status = "running"
        /\ hist.started \in Named(containers, tasks[t].repository_id)
        /\ containers[hist.started].status = "running"
        /\ mpc \in {"await_status", "await_result", "await_stop"}

\* The off-loaded get_task_result call of the iteration for task cur
\* completes in this step.
ResultRead ==
    mpc = "await_result" /\ mpc' \notin {"await_result", "cancelled"}

\* C12: when the runtime has reported exited for a RUNNING task not past
\* its timeout and the task's result file holds a document that parses, the
\* empty document included, the task is SUCCESS with that document as its
\* result and finished_at set when the pass has dealt with it.
C12_ParsedArtifactIsSuccess ==
    [][(/\ ResultRead
        /\ ~Overdue(tasks[cur])
        /\ results[cur] \in {"doc", "empty"}
        /\ cur \in DOMAIN tasks')
       => /\ tasks'[cur].status = "success"
          /\ tasks'[cur].result = results[cur]
          /\ tasks'[cur].finished_at # None]_vars

\* C13: a pass that has dealt with a RUNNING task with a container_ref (no
\* runtime call raising) has marked it TIMEOUT if the task was past the
\* timeout of its own configuration when the pass came to it; and a task is
\* marked TIMEOUT only past its timeout, by the step in which the stop
\* request for the container of its repository returns, with finished_at
\* set and an error_message that holds the elapsed seconds.
C13_TimeoutExactlyWhenOverdue ==
    [][(/\ IterationEnds
        /\ hist'.last_error # "docker_error"
        /\ cur \in DOMAIN tasks')
       => /\ hist.overdue => tasks'[cur].status = "timeout"
          /\ (tasks'[cur].status = "timeout" /\ tasks[cur].status # "timeout")
             => /\ mpc = "await_stop"
                /\ now - tasks[cur].started_at > tasks[cur].timeout
                /\ \E f \in StopFaults :
                      containers' =
                          stop_container(containers, tasks[cur].repository_id, f).cs
                /\ tasks'[cur].finished_at = now
                /\ \E e \in (tasks[cur].timeout + 1)..(now - tasks[cur].started_at) :
                      tasks'[cur].error_message = TimeoutMessage(e)]_vars

\* The pass ends in the step in which a status poll or a result read
\* returns or raises.
PassEndsAtPoll ==
    mpc \in {"await_status", "await_result"} /\ mpc' = "sleep"

\* C14: a pass does not end at a status poll or a result read, raising or
\* not, while a RUNNING task with a container_ref is left in its snapshot,
\* and the retention pass has run when it ends.
C14_PollErrorDoesNotStopPass ==
    [][PassEndsAtPoll
       => /\ \A i \in 1..Len(todo) :
                todo[i] \in DOMAIN tasks' => ~Eligible(tasks'[todo[i]])
          /\ hist'.retention # NoRetention]_vars

\* start() has returned and stop() has not been called since.
Started == _running /\ stop_pc = "idle"

\* C15: while the engine is started, the loop's coroutine is alive, asleep
\* or inside a pass; an exception that ends a pass leaves it asleep; and
\* after such an exception another pass begins (or stop() is called).
C15_LoopSurvivesExceptions ==
    /\ [](Started => mpc \in {"sleep", "await_status", "await_result", "await_stop"})
    /\ [][(Started /\ hist'.last_error # hist.last_error /\ hist'.last_error # Null)
            => mpc' = "sleep"]_vars
    /\ (Started /\ hist.last_error # Null) ~> (~Started \/ hist.last_error = Null)

\* C15 witness: a pass is under way while a task is left FAILED without
\* finished_at by the exception that ended an earlier pass.
C15_Witness ==
    /\ Started
    /\ mpc \in {"await_status", "await_result", "await_stop"}
    /\ \E t \in DOMAIN tasks :
          /\ t # cur
          /\ tasks[t].status = "failed"
          /\ tasks[t].finished_at = None
          /\ tasks[t].error_message = "No result file generated"

\* C16: while start() is the last call that returned there is one live loop,
\* while stop() is the last call that returned (the engine started before
\* or not) there is none, and a stop() call that finds the engine not
\* running changes nothing of the engine.
C16_StartStopIdempotent ==
    /\ [](Started => hist.loops = 1 /\ mpc # "none")
    /\ [](Stopped => hist.loops = 0 /\ mpc = "none")
    /\ [][(~_running /\ stop_pc = "idle"
               /\ hist'.cancelled_at # hist.cancelled_at /\ ~_running')
           => UNCHANGED <<tasks, repository_configs, default_cloc_config, looked, orphans, sync, db,
                          _running, starting, mpc, cur, todo, elapsed,
                          stop_pc, containers, results, now, issued>>]_vars

\* C16 witness: start() and then stop() were called, the stop cancelled a
\* sleeping loop and has returned: no loop is left, with tasks in the
\* registry.
C16_Witness ==
    /\ Stopped
    /\ hist.cancelled_at = "sleep"
    /\ hist.loops = 0
    /\ tasks # <<>>

\* C17: a set_repository_config call changes one entry of the live map and
\* nothing else; a task keeps the timeout it was scheduled with, and that
\* is the timeout a pass marks it TIMEOUT by; a task is scheduled with the
\* live entry of its repository (the default if there is none).
C17_ConfigOnlyForLaterTasks ==
    /\ [][repository_configs' # repository_configs
            => /\ \E r \in Repos :
                     /\ r \in DOMAIN repository_configs'
                     /\ repository_configs' =
                            Put(repository_configs, r, repository_configs'[r])
               /\ UNCHANGED <<tasks, default_cloc_config, looked, orphans, sync, db, _running, starting,
                              mpc, cur, todo, elapsed, stop_pc, containers,
                              results, now, issued>>]_vars
    /\ [][\A t \in DOMAIN tasks \cap DOMAIN tasks' :
             /\ tasks'[t].timeout = tasks[t].timeout
             /\ (tasks'[t].status = "timeout" /\ tasks[t].status # "timeout")
                    => now - tasks[t].started_at > tasks[t].timeout]_vars
    /\ [][\A t \in DOMAIN tasks' \ DOMAIN tasks :
             tasks'[t].timeout =
                 IF tasks'[t].repository_id \in DOMAIN repository_configs
                 THEN repository_configs[tasks'[t].repository_id]
                 ELSE default_cloc_config]_vars

\* C17 witness: a task scheduled before a set_repository_config call was
\* marked TIMEOUT by its own timeout, shorter than the live entry of its
\* repository, and a task of the repository scheduled after the call
\* carries the live entry.
C17_Witness ==
    \E t1, t2 \in DOMAIN tasks :
        /\ t1 < t2
        /\ tasks[t1].repository_id = tasks[t2].repository_id
        /\ tasks[t1].repository_id \in DOMAIN repository_configs
        /\ tasks[t2].timeout = repository_configs[tasks[t2].repository_id]
        /\ tasks[t1].timeout < tasks[t2].timeout
        /\ tasks[t1].status = "timeout"
        /\ tasks[t1].finished_at - tasks[t1].started_at <= tasks[t2].timeout

\* Arguments of list_tasks: a repository filter (None, the empty string, a
\* repository), a status filter (None, a status), a limit.
RepoFilters == Repos \cup {Null, ""}
StatusFilters == Terminal \cup {Null, "pending", "running"}
Limits == 0..(MaxTasks + 1)

\* out lists, newest first, the first limit of the tasks S of registry ts.
IsListing(out, ts, S, limit) ==
    LET listed == {out[i] : i \in 1..Len(out)}
    IN /\ listed \subseteq S
       /\ Len(out) = Cardinality(listed)
       /\ Len(out) = IF limit < Cardinality(S) THEN limit ELSE Cardinality(S)
       /\ \A i, j \in 1..Len(out) :
              i < j => ts[out[i]].created_at >= ts[out[j]].created_at
       /\ \A x \in listed : \A y \in S \ listed :
              ts[x].created_at >= ts[y].created_at

\* C18 as stated: list_tasks returns, newest first and cut to limit, exactly
\* the tasks that have the repository_id given (if one is given, that is, it
\* is not None) and the status given (if one is given).
C18_ListsExactlyMatching ==
    \A r \in RepoFilters, st \in StatusFilters, limit \in Limits :
        IsListing(list_tasks(tasks, r, st, limit), tasks,
                  {t \in DOMAIN tasks :
                      /\ r # Null => tasks[t].repository_id = r
                      /\ st # Null => tasks[t].status = st},
                  limit)

\* C18 amended: the same, where a repository_id that is None or the empty
\* string is no filter.
C18_ListsMatchingNonEmptyFilter ==
    \A r \in RepoFilters, st \in StatusFilters, limit \in Limits :
        IsListing(list_tasks(tasks, r, st, limit), tasks,
                  {t \in DOMAIN tasks :
                      /\ r \notin {Null, ""} => tasks[t].repository_id = r
                      /\ st # Null => tasks[t].status = st},
                  limit)

\* C18 witness: two tasks of two repositories created at different times,
\* one RUNNING and one FAILED: the unfiltered list has the newer first, the
\* limit cuts it to the newer, and the filters select one task each.
C18_Witness ==
    /\ DOMAIN tasks = {1, 2}
    /\ tasks[1].created_at < tasks[2].created_at
    /\ list_tasks(tasks, Null, Null, 3) = <<2, 1>>
    /\ list_tasks(tasks, Null, Null, 1) = <<2>>
    /\ list_tasks(tasks, "r1", Null, 3) = <<1>>
    /\ list_tasks(tasks, Null, "failed", 3) = <<2>>
    /\ list_tasks(tasks, "r2", "running", 3) = <<>>

\* C19: a schedule call adds one entry to the registry, under a task_id no
\* task of the registry has, and leaves every task of the registry as it
\* was.
C19_ScheduleAddsOneNewEntry ==
    [][issued' # issued
       => /\ \E t \in DOMAIN tasks' \ DOMAIN tasks :
                DOMAIN tasks' = DOMAIN tasks \cup {t}
          /\ \A t \in DOMAIN tasks : tasks'[t] = tasks[t]]_vars

\* C20: when the runtime has reported exited for a RUNNING task not past
\* its timeout and the task has no result file, the task is FAILED with an
\* error_message and finished_at set when the pass has dealt with it, no
\* exception has left the pass, and the pass goes on to the RUNNING tasks
\* with a container_ref left in its snapshot.
C20_NoArtifactIsFailed ==
    [][(/\ ResultRead
        /\ ~Overdue(tasks[cur])
        /\ results[cur] = "missing"
        /\ cur \in DOMAIN tasks')
       => /\ tasks'[cur].status = "failed"
          /\ tasks'[cur].error_message # Null
          /\ tasks'[cur].finished_at # None
          /\ hist'.last_error = Null
          /\ FirstEligible(tasks, todo) # 0 => mpc' = "await_status"]_vars

\* The off-loaded get_task_status call of the iteration for task cur
\* completes in this step.
StatusPolled ==
    /\ mpc = "await_status"
    /\ cur' # cur \/ mpc' \in {"await_result", "await_stop"}

\* A task marked FAILED because its container no longer resolved, within
\* its timeout.
LostInTime(task) ==
    /\ task.status = "failed"
    /\ task.error_message = "Container not found"
    /\ task.finished_at # None
    /\ task.finished_at - task.started_at <= task.timeout

\* C21: when the status poll of a RUNNING task not past its timeout finds
\* that the container reference no longer resolves (the poll not raising),
\* the task is FAILED with error_message "Container not found" and
\* finished_at set, and no container is created or started; and no step
\* changes such a task afterwards.
C21_LostContainerIsFailed ==
    /\ [][(/\ StatusPolled
            /\ tasks[cur].container_id \notin DOMAIN containers
            /\ hist'.last_error = Null
            /\ ~Overdue(tasks[cur])
            /\ cur \in DOMAIN tasks')
           => /\ LostInTime(tasks'[cur])
              /\ tasks'[cur].finished_at = now
              /\ containers' = containers]_vars
    /\ [][\A t \in DOMAIN tasks \cap DOMAIN tasks' :
             LostInTime(tasks[t]) => tasks'[t] = tasks[t]]_vars

\* C21 witness: a task was marked FAILED for its lost container within
\* its timeout, and a later pass, begun after a task created later was
\* scheduled, is under way.
C21_Witness ==
    \E t \in DOMAIN tasks :
        /\ LostInTime(tasks[t])
        /\ mpc = "await_status"
        /\ cur # t
        /\ tasks[cur].created_at > tasks[t].finished_at

\* A pass of the loop ends in this step without an exception, so the
\* retention pass runs in it.
RetentionRuns ==
    /\ mpc \in {"sleep", "await_status", "await_result", "await_stop"}
    /\ mpc' = "sleep"
    /\ hist'.retention # NoRetention
    /\ hist'.last_error = Null
    /\ UNCHANGED <<now, issued, starting, results, _running,
                   repository_configs>>
    /\ mpc = "sleep" => UNCHANGED containers

\* C22: when a retention pass has run, the registry holds no terminal task
\* whose finished_at is older than the maximum age, whatever its size.
C22_RetentionEvictsByAge ==
    [][RetentionRuns
       => \A t \in DOMAIN tasks' :
             (tasks'[t].status \in Terminal /\ tasks'[t].finished_at # None)
                 => now - tasks'[t].finished_at <= max_age_hours]_vars

\* C23: in every reachable state a task of the registry has an
\* error_message if and only if its status is FAILED or TIMEOUT.
C23_ErrorMessageIffFailedOrTimeout ==
    \A t \in DOMAIN tasks :
        (tasks[t].error_message # Null) <=> (tasks[t].status \in {"failed", "timeout"})

\* C23 witness: the registry holds a SUCCESS task without error_message
\* and a task that a failed start call left FAILED with the error text.
C23_Witness ==
    \E t1, t2 \in DOMAIN tasks :
        /\ tasks[t1].status = "success"
        /\ tasks[t1].error_message = Null
        /\ tasks[t2].status = "failed"
        /\ tasks[t2].container_id = None
        /\ tasks[t2].error_message \in {"create_failed", "start_failed", "docker_error"}

\* A task left FAILED by the handler of _execute_task: its start call
\* raised, so it has no container_ref.
FailedAtStart(task) ==
    /\ task.status = "failed"
    /\ task.container_id = None
    /\ task.error_message \in {"create_failed", "create_conflict",
                                "start_failed", "docker_error"}

\* C24: in every reachable state a task of the registry has started_at set
\* if and only if it has left PENDING for RUNNING, and a task whose start
\* call failed has started_at unset.
C24_StartedIffEverRunning ==
    \A t \in DOMAIN tasks :
        /\ (tasks[t].started_at # None) <=> (tasks[t].status # "pending")
        /\ FailedAtStart(tasks[t]) => tasks[t].started_at = None

\* C25: a schedule call whose start_task thread found no container of the
\* repository, and met no fault of the runtime at creation or start,
\* returns its task RUNNING with a container of the repository's name, the
\* same as that of every task of the repository whose call overlapped with
\* it and returned RUNNING; it is not FAILED because another call created
\* the container in between.
C25_OverlappingCallsShareContainer ==
    [][\A t \in Returning :
          (/\ t \in DOMAIN looked
           /\ looked[t].id = None
           /\ tasks'[t].error_message \notin {"create_failed", "start_failed"})
          => /\ tasks'[t].status = "running"
             /\ tasks'[t].container_id \in Named(containers', tasks'[t].repository_id)
             /\ \A t1 \in DOMAIN tasks' \ (hist.called_after[t] \cup starting) :
                    (/\ tasks'[t1].repository_id = tasks'[t].repository_id
                     /\ tasks'[t1].status = "running"
                     /\ tasks'[t1].container_id \in DOMAIN containers')
                    => tasks'[t1].container_id = tasks'[t].container_id]_vars

\* C26: no pass is at a task while a runtime call that an earlier pass
\* off-loaded for that task, the pass of a cancelled loop included, is
\* still running.
C26_OneReconciliationInFlight ==
    \A o \in orphans :
        ~(mpc \in {"await_status", "await_result", "await_stop"} /\ cur = o.task)

\* C27: no iteration over the registry fails or is cut short because the
\* registry changed while it was under way: the iterator of the sync loop
\* never raises.  (The pass walks the copy it took, todo, and list_tasks
\* and the retention pass do not suspend while they iterate.)
C27_ReadersSurviveRegistryChanges ==
    sync.failed = FALSE

\* C28: the result of a pass does not depend on the visiting order: from
\* the registry, clock and runtime state of any state in which a pass can
\* begin, every order of visiting the tasks gives every task the same
\* final status.
C28_PassIsOrderInsensitive ==
    (mpc = "sleep" /\ _running) =>
        \A o1, o2 \in Orders(DOMAIN tasks) :
            StatusesAfterPass(tasks, containers, results, o1)
                = StatusesAfterPass(tasks, containers, results, o2)

\* The pass has found the task it is visiting past its timeout and its
\* stop request has not completed.
StopRequested == mpc = "await_stop"

\* C29: the TIMEOUT transition neither waits for nor depends on the stop
\* request: the task is TIMEOUT while the stop request of the pass is
\* still under way, and it is TIMEOUT after the step of the pass in which
\* the stop request ends, with or without an error.
C29_TimeoutIndependentOfStop ==
    /\ [](StopRequested => tasks[cur].status = "timeout")
    /\ [][(StopRequested /\ mpc' \in {"sleep", "await_status"})
            => (cur \in DOMAIN tasks' => tasks'[cur].status = "timeout")]_vars

\* C30: every task without a container reference is FAILED, so no task is
\* RUNNING without a container reference.
C30_NoReferenceMeansFailed ==
    \A t \in DOMAIN tasks :
        tasks[t].container_id = None => tasks[t].status = "failed"

\* start_task of the call for t, as the step of its return shows it:
\* containers are created only under a name nothing held ...
CreatesOnlyWhenAbsent(t) ==
    \A c \in DOMAIN containers' \ DOMAIN containers :
        /\ containers'[c].name = _get_container_name(tasks[t].repository_id)
        /\ Named(containers, tasks[t].repository_id) = {}

\* ... a container reported running is returned as it is and one reported
\* otherwise has been started when the call returns its reference ...
StartsIffNotRunning(t) ==
    /\ (t \in DOMAIN looked /\ looked[t].status = "running")
           => /\ containers' = containers
              /\ tasks'[t].container_id = looked[t].id
    /\ (t \in DOMAIN looked /\ looked[t].status # "running"
           /\ tasks'[t].container_id # None)
           => containers'[tasks'[t].container_id].status = "running"

\* ... and the reference returned is that of the repository's container.
ReturnsRepositoryContainer(t) ==
    tasks'[t].container_id # None
        => tasks'[t].container_id \in Named(containers', tasks[t].repository_id)

\* A call for the repository had returned the reference of a container,
\* still there, before the call for t was made: the call for t returns the
\* same reference and creates nothing.
AgainReturnsSame(t) ==
    \A t1 \in hist.called_after[t] :
        (/\ t1 \in DOMAIN tasks
         /\ tasks[t1].repository_id = tasks[t].repository_id
         /\ tasks[t1].container_id # None
         /\ tasks[t1].container_id \in DOMAIN containers'
         /\ tasks'[t].container_id # None)
        => /\ tasks'[t].container_id = tasks[t1].container_id
           /\ DOMAIN containers' = DOMAIN containers

\* C31 as stated: start_task creates a container only when none of the
\* repository's name exists, starts it if and only if its reported status
\* is not running, returns the reference of the repository's container,
\* and a later call for the repository returns the same reference and
\* creates nothing.
C31_StartTaskEnsuresAndStarts ==
    [][\A t \in Returning :
          /\ CreatesOnlyWhenAbsent(t)
          /\ StartsIffNotRunning(t)
          /\ ReturnsRepositoryContainer(t)
          /\ AgainReturnsSame(t)]_vars

\* The reference returned is that of the repository's container, if the
\* container it refers to has not been removed while the call was under
\* way.
ReturnsRepositoryContainerIfKept(t) ==
    (/\ tasks'[t].container_id # None
     /\ tasks'[t].container_id \in DOMAIN containers')
        => tasks'[t].container_id \in Named(containers', tasks[t].repository_id)

\* C31 amended: the same, where the reference returned is that of the
\* repository's container unless that container was removed between the
\* lookup of the call and its return.
C31_StartTaskEnsuresAndStartsIfKept ==
    [][\A t \in Returning :
          /\ CreatesOnlyWhenAbsent(t)
          /\ StartsIffNotRunning(t)
          /\ ReturnsRepositoryContainerIfKept(t)
          /\ AgainReturnsSame(t)]_vars

\* C31 witness: the container of a repository had exited when a second
\* call for the repository was made; the call has returned the reference
\* of the same container, started again, and nothing was created.
C31_Witness ==
    \E t1, t2 \in DOMAIN tasks :
        /\ t1 < t2
        /\ tasks[t1].repository_id = tasks[t2].repository_id
        /\ tasks[t1].status \in Terminal
        /\ tasks[t1].container_id = t1
        /\ tasks[t2].container_id = t1
        /\ t2 \notin starting
        /\ hist.started = t1
        /\ DOMAIN containers = {t1}
        /\ containers[t1].status = "running"

\* C32: stop_container and remove_container never propagate an error to
\* their caller, whatever the runtime answers to the lookup and to the stop
\* or remove request: no remove_container call raises, and the pass whose
\* stop_container call ends goes on without an exception.
C32_BestEffortNeverRaises ==
    /\ [][(StopRequested /\ mpc' \in {"sleep", "await_status"})
            => hist'.last_error = Null]_vars
    /\ [](\A r \in Repos : \A f \in RemoveFaults :
              get_container(containers, r) # None
                  => remove_container_outcome(containers, r, f).exc = Null)

\* C33: get_task_result returns the parsed document when the file of the
\* task exists and parses, and returns absent without raising when the
\* file is missing or does not parse; it reads the file of the given task
\* only.  Stated for every read the pass makes.
C33_ResultAbsentNeverRaises ==
    mpc = "await_result" =>
        /\ get_task_result_exc(results, cur) = Null
        /\ get_task_result(results, cur) =
               IF results[cur] \in {"doc", "empty"} THEN results[cur] ELSE Null

\* The clock of the model has reached its bound while task t waits for its
\* timeout.
ClockOut(t) == now = MaxTime /\ ~Overdue(tasks[t])

\* Task t is in the registry and neither SUCCESS, FAILED nor TIMEOUT.
Unsettled(t) == t \in DOMAIN tasks /\ tasks[t].status \notin Terminal

\* C34: while the engine is started, every task in the registry eventually
\* is SUCCESS, FAILED or TIMEOUT: no task stays PENDING or RUNNING forever.
C34_EveryTaskSettles ==
    \A t \in 1..MaxTasks :
        (Started /\ Unsettled(t)) ~> (~Unsettled(t) \/ ~Started \/ ClockOut(t))

\* C35: when a schedule call returns its task with a container reference,
\* the environment of that container holds the task's own task_id, branch,
\* commit_sha and configuration arguments, whether the container was
\* created by the call or was there before.
C35_ContainerCarriesOwnTask ==
    [][\A t \in Returning :
          tasks'[t].container_id # None
              => EnvTask(tasks'[t].container_id) = t]_vars

\* The status poll of the pass for task cur ends in this step, without a
\* fault of the runtime.
PollEnds ==
    /\ mpc = "await_status"
    /\ mpc' \notin {"await_status", "cancelled"}
    /\ hist'.last_error = Null

\* The container created for task t has exited, or has exited and been
\* removed, leaving a result file that parses to a document.
ExitedWithResult(t) ==
    /\ tasks[t].container_id = t
    /\ results[t] = "doc"
    /\ t \in DOMAIN containers => containers[t].status = "exited"

\* C36: a RUNNING task within its timeout whose container has exited and
\* whose result file exists and parses is classified SUCCESS by the pass
\* that polls it next (the poll is followed by the read of the result),
\* also when the container has been removed since it exited.
C36_ResultSurvivesContainerCleanup ==
    [][(PollEnds /\ ~Overdue(tasks[cur]) /\ ExitedWithResult(cur))
           => /\ mpc' = "await_result"
              /\ tasks'[cur].status = "running"]_vars

\* The tasks the retention pass removes in this step.
Evicted == DOMAIN tasks \ DOMAIN tasks'

\* A save of task t is under way or still to come: the sync loop awaits
\* db.save_task for it, or on_push has not made its save yet.
SavePending(t) ==
    \/ t \notin db.pushed
    \/ sync.pc = "saving" /\ sync.pos = t

\* C37: every task the retention pass removes from the registry has its
\* final state in the store: unless a save of the task is still to come,
\* the stored record has the status, finished_at, result and error_message
\* the task has in memory when it is evicted.
C37_EvictedTaskIsStored ==
    [][\A t \in Evicted :
          ~SavePending(t)
              => /\ db.rows[t].status = tasks[t].status
                 /\ db.rows[t].finished_at = tasks[t].finished_at
                 /\ db.rows[t].result = tasks[t].result
                 /\ db.rows[t].error_message = tasks[t].error_message]_vars

InPass == {"await_status", "await_result", "await_stop"}

\* A step of the loop's coroutine: a pass begins, goes on or ends.
PassStep ==
    /\ mpc \in InPass \cup {"sleep"}
    /\ mpc' \in InPass \cup {"sleep"}
    /\ \/ mpc' # mpc
       \/ cur' # cur
       \/ hist'.retention # hist.retention
       \/ hist'.last_error # hist.last_error

\* The runtime status the poll of task t gets is neither exited nor
\* not_found, and the task is within its timeout.
StillRunning(t) ==
    /\ get_task_status(containers, tasks[t].container_id)
           \notin {"exited", "not_found"}
    /\ ~Overdue(tasks[t])

\* C38: a pass changes nothing of a task that is not RUNNING, or has no
\* container reference, or is RUNNING within its timeout with a runtime
\* status other than exited and not_found, and issues no stop request for
\* it: the pass visits RUNNING tasks with a container reference only, a
\* step of the pass changes no task but the one it visits, and the poll of
\* a task still running within its timeout leaves it as it is and goes on
\* to the next task.
C38_PassLeavesOthersUnchanged ==
    [][PassStep =>
          /\ (cur' # None /\ cur' # cur) => Eligible(tasks'[cur'])
          /\ \A t \in DOMAIN tasks \cap DOMAIN tasks' :
                 t # cur => tasks'[t] = tasks[t]
          /\ (mpc = "await_status" /\ StillRunning(cur))
                 => /\ cur \in DOMAIN tasks'
                    /\ tasks'[cur] = tasks[cur]
                    /\ mpc' # "await_stop"
                    /\ containers' = containers]_vars

\* C38 witness: a pass has ended without an exception over a registry of
\* a task FAILED at its start, without a container reference, and a task
\* RUNNING within its timeout whose container is running; both are as
\* they were.
C38_Witness ==
    /\ Started
    /\ mpc = "sleep"
    /\ hist.last_error = Null
    /\ hist.retention.size_in = 2
    /\ \E t1, t2 \in DOMAIN tasks :
          /\ tasks[t1].status = "failed"
          /\ tasks[t1].container_id = None
          /\ tasks[t2].status = "running"
          /\ tasks[t2].container_id \in DOMAIN containers
          /\ containers[tasks[t2].container_id].status = "running"
          /\ ~Overdue(tasks[t2])
          /\ tasks[t2].started_at < now

\* The timestamps of task that are set are in order.
InOrder(task) ==
    /\ task.started_at # None => task.created_at <= task.started_at
    /\ task.finished_at # None => task.created_at <= task.finished_at
    /\ (task.started_at # None /\ task.finished_at # None)
           => task.started_at <= task.finished_at

\* C39: the timestamps of every task that are set satisfy created_at <=
\* started_at <= finished_at, and started_at and finished_at, once set,
\* are not changed by a later step.
C39_TimestampsOrderedAndFinal ==
    /\ [](\A t \in DOMAIN tasks : InOrder(tasks[t]))
    /\ [][\A t \in DOMAIN tasks \cap DOMAIN tasks' :
              /\ tasks[t].started_at # None
                     => tasks'[t].started_at = tasks[t].started_at
              /\ tasks[t].finished_at # None
                     => tasks'[t].finished_at = tasks[t].finished_at]_vars

=============================================================================
